---- MODULE Spec2Model ----
(***************************************************************************)
(* CloudSaver (src/src/cloudsaver.py): the reduce-and-replace workflow     *)
(* download_and_reduce_images and the duplicate workflow find_duplicates,  *)
(* as main() runs them on a listing returned by fetch_files; then the      *)
(* paginated listing fetch_files, export_to_json_file, and the menu loop   *)
(* of main(), each under a specification of its own.                       *)
(*                                                                         *)
(* Strings the code takes apart are sequences of characters (mime types,   *)
(* operator answers) or of '/'-separated segments (Drive paths).           *)
(***************************************************************************)
EXTENDS Integers, Sequences, FiniteSets, TLC

VARIABLES
    files,              \* the listing handed to the workflow (gdrive_files)
    pc,                 \* position of main / of the running workflow
    choice,             \* main: the menu choice entered ("" before any)
    number_of_files,    \* main: int(input(...)) of choice 3
    min_size_mb,        \* main: float(input(...)) of choice 3
    image_files,        \* download_and_reduce_images: the filtered listing
    selected_files,     \* download_and_reduce_images: image_files[:number_of_files]
    idx,                \* index of the loop in progress (1-based)
    reduced_paths,      \* the plan list: <<file, reduced_path>> pairs
    total_bytes_saved,  \* running total of before - after
    measured,           \* the (before, after) pairs reduce_image_to_1080p returned
    answer,             \* the normalised answer to the confirmation prompt
    duplicates_to_delete, \* find_duplicates: the redundant candidates
    total_bytes_savable,  \* find_duplicates: estimated reclaimable bytes
    grouped,            \* find_duplicates: the buckets, in first-seen key order
    disk,               \* local files: path -> content
    calls,              \* every call issued to the Drive service, in order
    out,                \* the lines printed, in order
    page_token,         \* fetch_files: the token the next list request carries
    pages,              \* fetch_files: the responses received, in order
    filename,           \* export_to_json_file: the file name it was called with
    rounds              \* main: the number of menu choices read so far

vars == <<files, pc, choice, number_of_files, min_size_mb, image_files, selected_files,
          idx, reduced_paths, total_bytes_saved, measured, answer,
          duplicates_to_delete, total_bytes_savable, grouped, disk, calls, out,
          page_token, pages, filename, rounds>>

----------------------------------------------------------------------------
(* Bounds of the model *)

MaxFiles == 3

Names == {"a.jpg", "b.jpg"}

MiB == 1024 * 1024

\* an unknown size (ingested as 0) and a size of exactly one MiB
Sizes == {0, MiB}

MimeImage == <<"i", "m", "a", "g", "e", "/", "p", "n", "g">>
MimeVideo == <<"v", "i", "d", "e", "o", "/", "m", "p", "4">>

\* file.get("ownedByMe"): True, False, or None when the entry has no such field
Owned == {"True", "False", "None"}

\* the (mimeType, ownedByMe) pairs of the listing entries: an owned image, an
\* image failing the ownership test either way, and an owned video
MimeOwned == ({MimeImage} \X Owned) \cup {<<MimeVideo, "True">>}

MinSizeMbs == {0, 1}

\* int(input(...)): negative, zero, up to the length of the longest listing
NumberOfFilesInputs == (0 - 1) .. MaxFiles

\* what the operator may type at a [y/N] prompt
AnswerInputs == {<<" ", "Y", " ">>, <<"n">>, <<>>}

----------------------------------------------------------------------------
(* Helpers *)

Min(a, b) == IF a < b THEN a ELSE b
Max(a, b) == IF a > b THEN a ELSE b

\* f"https://drive.google.com/file/d/{id}/view", as its '/'-separated segments
DrivePath(id) == <<"https:", "", "drive.google.com", "file", "d", id, "view">>

\* file['path'].split('/')[-2]
FileId(path) == path[Len(path) - 1]

\* asdict(MediaFile(...)) for the listing entry at position i
MediaFile(i, name, size, mime, owned) ==
    [name |-> name, path |-> DrivePath(ToString(i)), size_bytes |-> size,
     mimeType |-> mime, ownedByMe |-> owned]

\* the listing fetch_files builds from entries e: one record each, ids unique
Listing(e) ==
    [i \in 1..Len(e) |-> MediaFile(i, e[i][1], e[i][2], e[i][3][1], e[i][3][2])]

\* str.startswith
StartsWith(s, prefix) ==
    /\ Len(s) >= Len(prefix)
    /\ SubSeq(s, 1, Len(prefix)) = prefix

\* str.strip() on the blanks of the model
RECURSIVE LStrip(_)
LStrip(s) == IF s # <<>> /\ Head(s) = " " THEN LStrip(Tail(s)) ELSE s

RECURSIVE RStrip(_)
RStrip(s) ==
    IF s # <<>> /\ s[Len(s)] = " " THEN RStrip(SubSeq(s, 1, Len(s) - 1)) ELSE s

Strip(s) == RStrip(LStrip(s))

LowerChar(c) == IF c = "Y" THEN "y" ELSE IF c = "N" THEN "n" ELSE c

\* str.lower()
Lower(s) == [i \in 1..Len(s) |-> LowerChar(s[i])]

\* input(...).strip().lower()
ReadAnswer(typed) == Lower(Strip(typed))

\* a prompt that proceeds on anything but an explicit "n"
AffirmativeUnlessNo(ans) == ans # <<"n">>

\* answer == "y"
Affirmative(ans) == ans = <<"y">>

\* seq[:n] with Python's meaning of a negative n
SlicePrefix(seq, n) ==
    IF n >= 0 THEN SubSeq(seq, 1, Min(n, Len(seq)))
    ELSE SubSeq(seq, 1, Max(Len(seq) + n, 0))

\* seq[1:]
SliceRest(seq) == SubSeq(seq, 2, Len(seq))

RECURSIVE SumSizes(_)
\* sum(f['size_bytes'] for f in seq)
SumSizes(seq) ==
    IF seq = <<>> THEN 0 ELSE Head(seq).size_bytes + SumSizes(Tail(seq))

Line(kind, name, n) == [kind |-> kind, name |-> name, n |-> n]

\* disk after writing content c at path p
WriteFile(d, p, c) == [q \in DOMAIN d \cup {p} |-> IF q = p THEN c ELSE d[q]]

DOWNLOAD_DIR == "output/downloaded"
REDUCED_DIR == "output/reduced"

\* os.path.join(dir, name)
JoinPath(dir, name) == <<dir, name>>

----------------------------------------------------------------------------
(* Initial state: main() at its menu, with the listing Drive will return *)

Init ==
    /\ \E n \in 0..MaxFiles :
         \E e \in [1..n -> Names \X Sizes \X MimeOwned] : files = Listing(e)
    /\ pc = "menu"
    /\ choice = ""
    /\ number_of_files = 0
    /\ min_size_mb = 0
    /\ image_files = <<>>
    /\ selected_files = <<>>
    /\ idx = 1
    /\ reduced_paths = <<>>
    /\ total_bytes_saved = 0
    /\ measured = <<>>
    /\ answer = <<>>
    /\ duplicates_to_delete = <<>>
    /\ total_bytes_savable = 0
    /\ grouped = <<>>
    /\ disk = <<>>
    /\ calls = <<>>
    /\ out = <<>>
    /\ page_token = "None"
    /\ pages = <<>>
    /\ filename = ""
    /\ rounds = 0

----------------------------------------------------------------------------
(* download_and_reduce_images *)

\* the filter with the size test written >= instead of >
EligibleAtThreshold(f, mb) ==
    /\ StartsWith(f.mimeType, <<"i", "m", "a", "g", "e", "/">>)
    /\ f.size_bytes >= mb * 1024 * 1024
    /\ f.ownedByMe = "True"

\* the listing filter of download_and_reduce_images
Eligible(f, mb) ==
    /\ StartsWith(f.mimeType, <<"i", "m", "a", "g", "e", "/">>)
    /\ f.size_bytes > mb * 1024 * 1024
    /\ f.ownedByMe = "True"

FilterImages(fs, mb) ==
    LET Keep(f) == Eligible(f, mb) IN SelectSeq(fs, Keep)

\* image_files[:number_of_files]
SelectFiles(imgs, n) == SlicePrefix(imgs, n)

Call(op, id, ok, arg) == [op |-> op, id |-> id, ok |-> ok, arg |-> arg]

\* the bytes Drive serves for a file, and what the reducer writes from them
Downloaded(f) == [of |-> FileId(f.path), reduced |-> FALSE, bytes |-> f.size_bytes]
ReducedFrom(c, after) == [of |-> c.of, reduced |-> TRUE, bytes |-> after]

\* os.path.getsize
GetSize(d, p) == d[p].bytes

\* the sizes img.save may leave on disk: smaller, or larger than the input
AfterSizes(before) == {before \div 2, before + 1}

\* where control goes once the download loop has handled entry i of sel
AfterDownload(i, sel, plans) ==
    IF i < Len(sel) THEN "download"
    ELSE IF plans = <<>> THEN "done" ELSE "prompt"

\* main, choice 3: read the two numbers, then the filter and the selection
Choose3(n, mb) ==
    /\ pc = "menu"
    /\ choice' = "3"
    /\ number_of_files' = n
    /\ min_size_mb' = mb
    /\ image_files' = FilterImages(files, mb)
    /\ IF image_files' = <<>>
       THEN /\ out' = Append(out, Line("NoImageFiles", "", 0))
            /\ selected_files' = <<>>
            /\ pc' = "done"
       ELSE /\ out' = out
            /\ selected_files' = SelectFiles(image_files', n)
            /\ pc' = AfterDownload(0, selected_files', <<>>)
    /\ idx' = 1
    /\ UNCHANGED <<page_token, pages, filename, rounds, files, reduced_paths, total_bytes_saved, measured, answer,
                   duplicates_to_delete, total_bytes_savable, grouped, disk, calls>>

InDownload == pc = "download" /\ idx <= Len(selected_files)

\* building the download request raises: line 170 is outside the try
RequestFails ==
    /\ InDownload
    /\ LET file == selected_files[idx] IN
         /\ out' = Append(out, Line("Downloading", file.name, file.size_bytes))
         /\ calls' = Append(calls, Call("get_media", FileId(file.path), FALSE, <<>>))
    /\ pc' = "raised"
    /\ UNCHANGED <<page_token, pages, filename, rounds, files, choice, number_of_files, min_size_mb, image_files, selected_files,
                   idx, reduced_paths, total_bytes_saved, measured, answer,
                   duplicates_to_delete, total_bytes_savable, grouped, disk>>

\* the download raises: the outer except logs it, the loop goes on
DownloadFails ==
    /\ InDownload
    /\ LET file == selected_files[idx]
           id == FileId(file.path) IN
         /\ out' = out \o <<Line("Downloading", file.name, file.size_bytes),
                            Line("FailedDownloadReduce", file.name, 0)>>
         /\ calls' = calls \o <<Call("get_media", id, TRUE, <<>>),
                                Call("download", id, FALSE, <<>>)>>
    /\ pc' = AfterDownload(idx, selected_files, reduced_paths)
    /\ idx' = idx + 1
    /\ UNCHANGED <<page_token, pages, filename, rounds, files, choice, number_of_files, min_size_mb, image_files, selected_files,
                   reduced_paths, total_bytes_saved, measured, answer,
                   duplicates_to_delete, total_bytes_savable, grouped, disk>>

\* the download is staged, the reducer raises: the inner except skips the file
ReduceFails ==
    /\ InDownload
    /\ LET file == selected_files[idx]
           id == FileId(file.path)
           local_path == JoinPath(DOWNLOAD_DIR, file.name) IN
         /\ out' = out \o <<Line("Downloading", file.name, file.size_bytes),
                            Line("Saved", file.name, 0),
                            Line("SkippedCorrupted", file.name, 0)>>
         /\ calls' = calls \o <<Call("get_media", id, TRUE, <<>>),
                                Call("download", id, TRUE, <<>>)>>
         /\ disk' = WriteFile(disk, local_path, Downloaded(file))
    /\ pc' = AfterDownload(idx, selected_files, reduced_paths)
    /\ idx' = idx + 1
    /\ UNCHANGED <<page_token, pages, filename, rounds, files, choice, number_of_files, min_size_mb, image_files, selected_files,
                   reduced_paths, total_bytes_saved, measured, answer,
                   duplicates_to_delete, total_bytes_savable, grouped>>

\* a running total that only counts a file that shrank
AccumulateShrinkOnly(total, before, after) ==
    IF before > after THEN total + (before - after) ELSE total

\* total_bytes_saved += before - after
Accumulate(total, before, after) == total + (before - after)

\* the file is staged and reduced: the saving is accumulated, the plan appended
ReduceOk ==
    /\ InDownload
    /\ LET file == selected_files[idx]
           id == FileId(file.path)
           local_path == JoinPath(DOWNLOAD_DIR, file.name)
           reduced_path == JoinPath(REDUCED_DIR, file.name)
           staged == WriteFile(disk, local_path, Downloaded(file))
           before == GetSize(staged, local_path) IN
         \E size \in AfterSizes(before) :
           LET written == WriteFile(staged, reduced_path,
                                    ReducedFrom(staged[local_path], size))
               after == GetSize(written, reduced_path) IN
             /\ disk' = written
             /\ measured' = Append(measured, [id |-> id, before |-> before,
                                              after |-> after])
             /\ total_bytes_saved' = Accumulate(total_bytes_saved, before, after)
             /\ reduced_paths' = Append(reduced_paths, <<file, reduced_path>>)
             /\ out' = out \o <<Line("Downloading", file.name, file.size_bytes),
                                Line("Saved", file.name, 0),
                                Line("Reduced", file.name, before - after)>>
             /\ calls' = calls \o <<Call("get_media", id, TRUE, <<>>),
                                    Call("download", id, TRUE, <<>>)>>
    /\ pc' = AfterDownload(idx, selected_files, reduced_paths')
    /\ idx' = idx + 1
    /\ UNCHANGED <<page_token, pages, filename, rounds, files, choice, number_of_files, min_size_mb, image_files, selected_files,
                   answer, duplicates_to_delete, total_bytes_savable, grouped>>

\* the confirmation prompt, and the closing report when it is declined
Confirm(typed) ==
    /\ pc = "prompt"
    /\ answer' = ReadAnswer(typed)
    /\ idx' = 1
    /\ IF Affirmative(answer')
       THEN /\ out' = Append(out, Line("AfterReplacement", "", total_bytes_saved))
            /\ pc' = "replace"
       ELSE /\ out' = out \o <<Line("AfterReplacement", "", total_bytes_saved),
                               Line("TotalSpaceSaved", "", total_bytes_saved)>>
            /\ pc' = "done"
    /\ UNCHANGED <<page_token, pages, filename, rounds, files, choice, number_of_files, min_size_mb, image_files, selected_files,
                   reduced_paths, total_bytes_saved, measured,
                   duplicates_to_delete, total_bytes_savable, grouped, disk, calls>>

InReplace == pc = "replace" /\ idx <= Len(reduced_paths)

\* the lines that close the replacement loop after plan i
AfterReplace(i, lines) ==
    IF i < Len(reduced_paths)
    THEN lines
    ELSE Append(lines, Line("TotalSpaceSaved", "", total_bytes_saved))

\* a try/except around the whole for: the first plan that raises ends the loop
ReplaceFrameStopsOnError(raised) ==
    /\ pc' = IF raised \/ idx >= Len(reduced_paths) THEN "done" ELSE "replace"
    /\ idx' = idx + 1
    /\ UNCHANGED <<page_token, pages, filename, rounds, files, choice, number_of_files, min_size_mb, image_files,
                   selected_files, reduced_paths, total_bytes_saved, measured,
                   answer, duplicates_to_delete, total_bytes_savable, grouped, disk>>

\* the try/except sits inside the for: the loop goes on whether or not the
\* body raised
ReplaceFrame(raised) ==
    /\ pc' = IF idx < Len(reduced_paths) THEN "replace" ELSE "done"
    /\ idx' = idx + 1
    /\ UNCHANGED <<page_token, pages, filename, rounds, files, choice, number_of_files, min_size_mb, image_files, selected_files,
                   reduced_paths, total_bytes_saved, measured, answer,
                   duplicates_to_delete, total_bytes_savable, grouped, disk>>

\* the line printed by the except of the replacement loop
ReplaceFailureLine(file) == Line("FailedReplace", file.name, 0)

\* a try around the trash alone: the upload goes ahead after a failed trash
TrashFailsStillUploads ==
    /\ InReplace
    /\ LET file == reduced_paths[idx][1]
           reduced_path == reduced_paths[idx][2]
           file_id == FileId(file.path)
           body == [name |-> file.name, mimeType |-> file.mimeType,
                    media |-> disk[reduced_path]] IN
         /\ calls' = calls \o <<Call("trash", file_id, FALSE, <<>>),
                                Call("create", file_id, TRUE, body)>>
         /\ out' = AfterReplace(idx, out \o <<ReplaceFailureLine(file),
                                              Line("Uploaded", file.name, 0)>>)
    /\ ReplaceFrame(TRUE)

\* the trash of the original raises
TrashFails ==
    /\ InReplace
    /\ LET file == reduced_paths[idx][1]
           file_id == FileId(file.path) IN
         /\ calls' = Append(calls, Call("trash", file_id, FALSE, <<>>))
         /\ out' = AfterReplace(idx, Append(out, ReplaceFailureLine(file)))
    /\ ReplaceFrame(TRUE)

\* the original is trashed, the upload of the reduced file raises
UploadFails ==
    /\ InReplace
    /\ LET file == reduced_paths[idx][1]
           reduced_path == reduced_paths[idx][2]
           file_id == FileId(file.path)
           body == [name |-> file.name, mimeType |-> file.mimeType,
                    media |-> disk[reduced_path]] IN
         /\ calls' = calls \o <<Call("trash", file_id, TRUE, <<>>),
                                Call("create", file_id, FALSE, body)>>
         /\ out' = AfterReplace(idx, out \o <<Line("MovedToTrash", file.name, 0),
                                              ReplaceFailureLine(file)>>)
    /\ ReplaceFrame(TRUE)

\* the original is trashed and the reduced file uploaded
ReplaceOk ==
    /\ InReplace
    /\ LET file == reduced_paths[idx][1]
           reduced_path == reduced_paths[idx][2]
           file_id == FileId(file.path)
           body == [name |-> file.name, mimeType |-> file.mimeType,
                    media |-> disk[reduced_path]] IN
         /\ calls' = calls \o <<Call("trash", file_id, TRUE, <<>>),
                                Call("create", file_id, TRUE, body)>>
         /\ out' = AfterReplace(idx, out \o <<Line("MovedToTrash", file.name, 0),
                                              Line("Uploaded", file.name, 0)>>)
    /\ ReplaceFrame(FALSE)

ReduceNext ==
    \/ \E n \in NumberOfFilesInputs, mb \in MinSizeMbs : Choose3(n, mb)
    \/ RequestFails
    \/ DownloadFails
    \/ ReduceFails
    \/ ReduceOk
    \/ \E typed \in AnswerInputs : Confirm(typed)
    \/ TrashFails
    \/ UploadFails
    \/ ReplaceOk

----------------------------------------------------------------------------
(* find_duplicates *)

\* a key that leaves the name out
KeyOfSizeOnly(file) == <<file.size_bytes>>

\* key = (file['name'], file['size_bytes'])
KeyOf(file) == <<file.name, file.size_bytes>>

\* grouped[key].append(file): the buckets keep the order their keys were first seen
AddToBucket(g, file) ==
    IF \E i \in 1..Len(g) : g[i].key = KeyOf(file)
    THEN [i \in 1..Len(g) |->
            IF g[i].key = KeyOf(file)
            THEN [key |-> g[i].key, members |-> Append(g[i].members, file)]
            ELSE g[i]]
    ELSE Append(g, [key |-> KeyOf(file), members |-> <<file>>])

RECURSIVE GroupFiles(_, _)
\* the loop over files that fills grouped
GroupFiles(fs, g) ==
    IF fs = <<>> THEN g ELSE GroupFiles(Tail(fs), AddToBucket(g, Head(fs)))

\* group[:-1]: the last member is kept instead of the first
RedundantKeepingLast(group) == SubSeq(group, 1, Len(group) - 1)

\* group[1:]: the first member is kept, the rest are marked
RedundantOf(group) == SliceRest(group)

\* the sizes of the whole group, keeper included
GroupSavableWithKeeper(group) == SumSizes(group)

\* sum(f['size_bytes'] for f in group[1:])
GroupSavable(group) == SumSizes(RedundantOf(group))

RECURSIVE CollectDuplicates(_, _)
\* the loop over grouped.values(): <<duplicates_to_delete, total_bytes_savable>>
CollectDuplicates(g, acc) ==
    IF g = <<>> THEN acc
    ELSE LET group == Head(g).members IN
         CollectDuplicates(Tail(g),
            IF Len(group) > 1
            THEN <<acc[1] \o RedundantOf(group), acc[2] + GroupSavable(group)>>
            ELSE acc)

\* main, choice 4: the grouping, the report and the way to the prompt
Choose4 ==
    /\ pc = "menu"
    /\ choice' = "4"
    /\ grouped' = GroupFiles(files, <<>>)
    /\ LET found == CollectDuplicates(grouped', <<<<>>, 0>>) IN
         /\ duplicates_to_delete' = found[1]
         /\ total_bytes_savable' = found[2]
         /\ IF found[1] = <<>>
            THEN /\ out' = Append(out, Line("NoDuplicates", "", 0))
                 /\ pc' = "done"
            ELSE /\ out' = out \o <<Line("FoundDuplicates", "", Len(found[1])),
                                    Line("EstimatedSpace", "", found[2])>>
                 /\ pc' = "dup_prompt"
    /\ idx' = 1
    /\ UNCHANGED <<page_token, pages, filename, rounds, files, number_of_files, min_size_mb, image_files, selected_files,
                   reduced_paths, total_bytes_saved, measured, answer, disk, calls>>

\* the confirmation prompt of find_duplicates
DupConfirm(typed) ==
    /\ pc = "dup_prompt"
    /\ answer' = ReadAnswer(typed)
    /\ idx' = 1
    /\ IF Affirmative(answer')
       THEN /\ out' = out
            /\ pc' = "dup_trash"
       ELSE /\ out' = Append(out, Line("NoFilesDeleted", "", 0))
            /\ pc' = "done"
    /\ UNCHANGED <<page_token, pages, filename, rounds, files, choice, number_of_files, min_size_mb, image_files, selected_files,
                   reduced_paths, total_bytes_saved, measured,
                   duplicates_to_delete, total_bytes_savable, grouped, disk, calls>>

InDupTrash == pc = "dup_trash" /\ idx <= Len(duplicates_to_delete)

DupTrashFrame ==
    /\ pc' = IF idx < Len(duplicates_to_delete) THEN "dup_trash" ELSE "done"
    /\ idx' = idx + 1
    /\ UNCHANGED <<page_token, pages, filename, rounds, files, choice, number_of_files, min_size_mb, image_files, selected_files,
                   reduced_paths, total_bytes_saved, measured, answer,
                   duplicates_to_delete, total_bytes_savable, grouped, disk>>

\* one duplicate is moved to the trash
DupTrashOk ==
    /\ InDupTrash
    /\ LET file == duplicates_to_delete[idx]
           file_id == FileId(file.path) IN
         /\ calls' = Append(calls, Call("trash", file_id, TRUE, <<>>))
         /\ out' = Append(out, Line("TrashedDuplicate", file.name, 0))
    /\ DupTrashFrame

\* the trash of one duplicate raises: logged, the loop goes on
DupTrashFails ==
    /\ InDupTrash
    /\ LET file == duplicates_to_delete[idx]
           file_id == FileId(file.path) IN
         /\ calls' = Append(calls, Call("trash", file_id, FALSE, <<>>))
         /\ out' = Append(out, Line("FailedTrash", file.name, 0))
    /\ DupTrashFrame

DupNext ==
    \/ Choose4
    \/ \E typed \in AnswerInputs : DupConfirm(typed)
    \/ DupTrashOk
    \/ DupTrashFails

Next == ReduceNext \/ DupNext

Spec == Init /\ [][Next]_vars

\* main runs one workflow per choice: each of the two on its own
SpecReduce == Init /\ [][ReduceNext]_vars
SpecDup == Init /\ [][DupNext]_vars

----------------------------------------------------------------------------
(* fetch_files: the paginated listing *)

\* the most responses one listing is spread over, and the most entries in one
MaxPages == 3
PageSize == 2

\* dict.get(key, default)
Get(d, key, default) == IF key \in DOMAIN d THEN d[key] ELSE default

\* the values a response's nextPageToken may have when the key is present:
\* None, the empty string, and two tokens
Tokens == {"None", "", "t1", "t2"}

DigitValue(c) ==
    CASE c = "0" -> 0 [] c = "1" -> 1 [] c = "2" -> 2 [] c = "3" -> 3
      [] c = "4" -> 4 [] c = "5" -> 5 [] c = "6" -> 6 [] c = "7" -> 7
      [] c = "8" -> 8 [] c = "9" -> 9

RECURSIVE ParseInt(_)
\* int(s) of a string of decimal digits
ParseInt(s) ==
    IF s = <<>> THEN 0
    ELSE 10 * ParseInt(SubSeq(s, 1, Len(s) - 1)) + DigitValue(s[Len(s)])

\* the k-th entry Drive lists: one with every field of LIST_FIELDS, or one
\* with neither size nor ownedByMe (a folder, a shortcut, a Docs file)
RawEntry(k, full) ==
    LET required ==
          [id |-> ToString(k),
           name |-> IF k % 2 = 1 THEN "img.png" ELSE "vid.mp4",
           mimeType |-> IF k % 2 = 1 THEN MimeImage ELSE MimeVideo]
    IN IF full
       THEN required @@ [size |-> <<"2", "0", "4", "8">>, ownedByMe |-> "True"]
       ELSE required

\* a response of files().list(...).execute(): "files" and "nextPageToken"
\* are each present or not
Response(hasFiles, entries, hasToken, token) ==
    (IF hasFiles THEN [files |-> entries] ELSE <<>>)
       @@ (IF hasToken THEN [nextPageToken |-> token] ELSE <<>>)

\* int(file.get("size", 0))
SizeOf(file) == IF "size" \in DOMAIN file THEN ParseInt(file.size) ELSE 0

\* asdict(MediaFile(...)) of one listed entry
Ingest(file) ==
    [name |-> Get(file, "name", "None"),
     path |-> DrivePath(Get(file, "id", "None")),
     size_bytes |-> SizeOf(file),
     mimeType |-> Get(file, "mimeType", "None"),
     ownedByMe |-> Get(file, "ownedByMe", "None")]

\* the records appended for the entries of one response
IngestAll(entries) == [i \in 1..Len(entries) |-> Ingest(entries[i])]

RECURSIVE ScannedLines(_, _)
\* the progress lines printed while count runs from `count` to `last`
ScannedLines(count, last) ==
    IF count >= last THEN <<>>
    ELSE IF (count + 1) % 50 = 0
         THEN <<Line("FilesScanned", "", count + 1)>> \o ScannedLines(count + 1, last)
         ELSE ScannedLines(count + 1, last)

\* a loop that goes on unless the token is None
NotPageTokenIfNone(token) == token = "None"

\* not page_token
NotPageToken(token) == token = "None" \/ token = ""

\* the lines printed after the loop
FoundLine(all_files) ==
    IF all_files = <<>> THEN Line("NoFilesMatching", "", 0)
    ELSE Line("FoundFiles", "", Len(all_files))

InitFetch ==
    /\ pc = "fetch_files"
    /\ files = <<>>
    /\ choice = ""
    /\ number_of_files = 0
    /\ min_size_mb = 0
    /\ image_files = <<>>
    /\ selected_files = <<>>
    /\ idx = 1
    /\ reduced_paths = <<>>
    /\ total_bytes_saved = 0
    /\ measured = <<>>
    /\ answer = <<>>
    /\ duplicates_to_delete = <<>>
    /\ total_bytes_savable = 0
    /\ grouped = <<>>
    /\ disk = <<>>
    /\ calls = <<>>
    /\ out = <<>>
    /\ page_token = "None"
    /\ pages = <<>>
    /\ filename = ""
    /\ rounds = 0

FetchFrame ==
    UNCHANGED <<choice, number_of_files, min_size_mb, image_files, selected_files,
                idx, reduced_paths, total_bytes_saved, measured, answer,
                duplicates_to_delete, total_bytes_savable, grouped, disk,
                filename, rounds>>

\* fetch_files is entered: its locals are set, the first line is printed
FetchFiles ==
    /\ pc = "fetch_files"
    /\ page_token' = "None"
    /\ files' = <<>>
    /\ out' = Append(out, Line("Scanning", "", 0))
    /\ pc' = "list"
    /\ UNCHANGED <<pages, calls>>
    /\ FetchFrame

\* one turn of the loop: the request carries page_token, the response's
\* entries are appended, its token decides whether the loop goes on
ListPage(response) ==
    /\ pc = "list"
    /\ calls' = Append(calls, Call("list", "", TRUE, page_token))
    /\ pages' = Append(pages, response)
    /\ LET entries == Get(response, "files", <<>>) IN
         /\ files' = files \o IngestAll(entries)
         /\ page_token' = Get(response, "nextPageToken", "None")
         /\ IF NotPageToken(page_token')
            THEN /\ pc' = "fetched"
                 /\ out' = out \o ScannedLines(Len(files), Len(files'))
                               \o <<FoundLine(files')>>
            ELSE /\ pc' = "list"
                 /\ out' = out \o ScannedLines(Len(files), Len(files'))
    /\ FetchFrame

\* execute() raises (transport, auth): nothing in fetch_files catches it
ListRaises ==
    /\ pc = "list"
    /\ calls' = Append(calls, Call("list", "", FALSE, page_token))
    /\ pc' = "raised"
    /\ UNCHANGED <<files, out, page_token, pages>>
    /\ FetchFrame

\* the responses Drive may give next: full and bare entries alternate within a
\* page, and the last response Drive is allowed has no token
NextFetch ==
    \/ FetchFiles
    \/ \E n \in 0..PageSize :
         \E firstFull \in IF n = 0 THEN {TRUE} ELSE BOOLEAN :
           \E hasFiles \in IF n = 0 THEN BOOLEAN ELSE {TRUE} :
             \E hasToken \in BOOLEAN :
               \E token \in IF hasToken THEN Tokens ELSE {"None"} :
                 /\ Len(pages) + 1 >= MaxPages => NotPageToken(token)
                 /\ ListPage(Response(hasFiles,
                                      [i \in 1..n |->
                                          RawEntry(Len(files) + i, (i % 2 = 1) = firstFull)],
                                      hasToken, token))
    \/ ListRaises

\* Drive answers every request, and the process is scheduled until it returns
SpecFetch == InitFetch /\ [][NextFetch]_vars /\ WF_vars(NextFetch)

----------------------------------------------------------------------------
(* export_to_json_file *)

OUTPUT_DIR == "output"

\* the names main exports under: choice 1, and choice 2 with a threshold of 1
ExportNames == {"all_media_files.json", "media_files_above_1MB.json"}

DigitChar(d) ==
    CASE d = 0 -> "0" [] d = 1 -> "1" [] d = 2 -> "2" [] d = 3 -> "3"
      [] d = 4 -> "4" [] d = 5 -> "5" [] d = 6 -> "6" [] d = 7 -> "7"
      [] d = 8 -> "8" [] d = 9 -> "9"

RECURSIVE Digits(_)
\* the decimal digits JSON writes for a natural number
Digits(n) ==
    IF n < 10 THEN <<DigitChar(n)>> ELSE Append(Digits(n \div 10), DigitChar(n % 10))

\* the JSON text of one value of a record: a number for size_bytes, one of
\* true / false / null for ownedByMe, a quoted string for the rest
JsonValue(key, value) ==
    CASE key = "size_bytes" -> <<"number", Digits(value)>>
      [] key = "ownedByMe" ->
            <<"literal", CASE value = "True" -> "true"
                           [] value = "False" -> "false"
                           [] value = "None" -> "null">>
      [] OTHER -> <<"string", value>>

\* what json.load makes of that text
JsonParse(text) ==
    CASE text[1] = "number" -> ParseInt(text[2])
      [] text[1] = "literal" ->
            (CASE text[2] = "true" -> "True"
               [] text[2] = "false" -> "False"
               [] text[2] = "null" -> "None")
      [] OTHER -> text[2]

\* json.dump(list(data), f, indent=2): a list of objects
JsonDump(data) ==
    [i \in 1..Len(data) |-> [key \in DOMAIN data[i] |-> JsonValue(key, data[i][key])]]

\* json.load(f)
JsonLoad(text) ==
    [i \in 1..Len(text) |-> [key \in DOMAIN text[i] |-> JsonParse(text[i][key])]]

\* an export that takes every data for data to write
NotDataNever(data) == FALSE

\* not data
NotData(data) == data = <<>>

\* the disk after export_to_json_file(data, name)
ExportedDisk(d, data, name) ==
    IF NotData(data) THEN d
    ELSE WriteFile(d, JoinPath(OUTPUT_DIR, name), [json |-> JsonDump(data)])

\* the line export_to_json_file(data, name) prints
ExportedLine(data, name) ==
    IF NotData(data) THEN Line("NoDataToExport", "", 0)
    ELSE Line("JsonSaved", name, 0)

\* the file an earlier export of one record left behind
EarlierExport ==
    [json |-> JsonDump(<<MediaFile(1, "a.jpg", MiB, MimeImage, "True")>>)]

\* export_to_json_file is about to be called with some records and a name,
\* with or without an earlier export on disk
InitExport ==
    /\ pc = "export"
    /\ \E n \in 0..MaxFiles :
         \E e \in [1..n -> Names \X Sizes \X MimeOwned] : files = Listing(e)
    /\ filename \in ExportNames
    /\ \/ disk = <<>>
       \/ disk = WriteFile(<<>>, JoinPath(OUTPUT_DIR, "all_media_files.json"),
                           EarlierExport)
    /\ choice = ""
    /\ number_of_files = 0
    /\ min_size_mb = 0
    /\ image_files = <<>>
    /\ selected_files = <<>>
    /\ idx = 1
    /\ reduced_paths = <<>>
    /\ total_bytes_saved = 0
    /\ measured = <<>>
    /\ answer = <<>>
    /\ duplicates_to_delete = <<>>
    /\ total_bytes_savable = 0
    /\ grouped = <<>>
    /\ calls = <<>>
    /\ out = <<>>
    /\ page_token = "None"
    /\ pages = <<>>
    /\ rounds = 0

ExportToJsonFile ==
    /\ pc = "export"
    /\ disk' = ExportedDisk(disk, files, filename)
    /\ out' = Append(out, ExportedLine(files, filename))
    /\ pc' = "exported"
    /\ UNCHANGED <<page_token, pages, filename, rounds, files, choice,
                   number_of_files, min_size_mb, image_files, selected_files, idx,
                   reduced_paths, total_bytes_saved, measured, answer,
                   duplicates_to_delete, total_bytes_savable, grouped, calls>>

NextExport == ExportToJsonFile

SpecExport == InitExport /\ [][NextExport]_vars

----------------------------------------------------------------------------
(* main: the menu loop *)

\* the most choices main reads, and the longest listing Drive returns to it
MaxRounds == 2
MaxListed == 2

\* the listings fetch_files returns to main: copies of one owned image of one MiB
MainListings ==
    {Listing([i \in 1..n |-> <<"a.jpg", MiB, <<MimeImage, "True">>>>]) : n \in 0..MaxListed}

\* what the operator may type where a number is asked for
NumberInputs == {<<"0">>, <<"1">>, <<"2">>, <<"x">>}

\* int(s) and float(s) raise ValueError unless s is a number
IsNumber(s) ==
    /\ s # <<>>
    /\ \A i \in 1..Len(s) : s[i] \in {"0", "1", "2", "3", "4", "5", "6", "7", "8", "9"}

\* f"media_files_above_{int(threshold_mb)}MB.json"
FileNameAbove(mb) ==
    CASE mb = 0 -> "media_files_above_0MB.json"
      [] mb = 1 -> "media_files_above_1MB.json"
      [] mb = 2 -> "media_files_above_2MB.json"

\* [f for f in gdrive_files if f['size_bytes'] > threshold_bytes]
LargeFiles(listing, mb) ==
    SelectSeq(listing, LAMBDA f : f.size_bytes > mb * 1024 * 1024)

\* what a fetch_files that returns `listing` prints, and the request it issues
FetchedOut(listing) == <<Line("Scanning", "", 0), FoundLine(listing)>>
FetchedCall == Call("list", "", TRUE, "None")

\* main has authenticated and is at its first menu
InitMain ==
    /\ pc = "menu"
    /\ files = <<>>
    /\ out = <<Line("Authenticating", "", 0)>>
    /\ choice = ""
    /\ number_of_files = 0
    /\ min_size_mb = 0
    /\ image_files = <<>>
    /\ selected_files = <<>>
    /\ idx = 1
    /\ reduced_paths = <<>>
    /\ total_bytes_saved = 0
    /\ measured = <<>>
    /\ answer = <<>>
    /\ duplicates_to_delete = <<>>
    /\ total_bytes_savable = 0
    /\ grouped = <<>>
    /\ disk = <<>>
    /\ calls = <<>>
    /\ page_token = "None"
    /\ pages = <<>>
    /\ filename = ""
    /\ rounds = 0

\* the menu is printed and a choice is read
ReadChoice(c) ==
    /\ pc = "menu"
    /\ rounds < MaxRounds
    /\ rounds' = rounds + 1
    /\ choice' = c

WorkflowUnchanged ==
    UNCHANGED <<image_files, selected_files, idx, reduced_paths, total_bytes_saved,
                measured, answer, duplicates_to_delete, total_bytes_savable, grouped,
                page_token, pages>>

\* choice 1: fetch, then export everything
MainExportAll(listing) ==
    /\ ReadChoice("1")
    /\ files' = listing
    /\ calls' = Append(calls, FetchedCall)
    /\ filename' = "all_media_files.json"
    /\ disk' = ExportedDisk(disk, listing, filename')
    /\ out' = out \o <<Line("Menu", "", 0)>> \o FetchedOut(listing)
                  \o <<ExportedLine(listing, filename')>>
    /\ pc' = "menu"
    /\ UNCHANGED <<number_of_files, min_size_mb>>
    /\ WorkflowUnchanged

\* choice 2: a threshold is read; the listing is fetched only if main holds
\* none; the files above the threshold are exported, if there are any
MainExportLarge(typed, listing) ==
    /\ ReadChoice("2")
    /\ IF ~IsNumber(typed)
       THEN /\ out' = out \o <<Line("Menu", "", 0), Line("InvalidNumber", "", 0)>>
            /\ UNCHANGED <<files, calls, filename, disk>>
       ELSE LET mb == ParseInt(typed)
                fetches == files = <<>>
                fetched == IF fetches THEN FetchedOut(listing) ELSE <<>>
            IN /\ files' = IF fetches THEN listing ELSE files
               /\ calls' = IF fetches THEN Append(calls, FetchedCall) ELSE calls
               /\ IF LargeFiles(files', mb) = <<>>
                  THEN /\ out' = out \o <<Line("Menu", "", 0)>> \o fetched
                                     \o <<Line("NoFilesAbove", "", 0)>>
                       /\ UNCHANGED <<filename, disk>>
                  ELSE /\ filename' = FileNameAbove(mb)
                       /\ disk' = ExportedDisk(disk, LargeFiles(files', mb), filename')
                       /\ out' = out \o <<Line("Menu", "", 0)>> \o fetched
                                     \o <<ExportedLine(LargeFiles(files', mb), filename')>>
    /\ pc' = "menu"
    /\ UNCHANGED <<number_of_files, min_size_mb>>
    /\ WorkflowUnchanged

\* choice 3 with a number that does not parse: ValueError is caught
MainReduceInvalid(count, typed) ==
    /\ ReadChoice("3")
    /\ ~IsNumber(count) \/ ~IsNumber(typed)
    /\ number_of_files' = IF IsNumber(count) THEN ParseInt(count) ELSE 0
    /\ out' = out \o <<Line("Menu", "", 0), Line("InvalidNumber", "", 0)>>
    /\ pc' = "menu"
    /\ UNCHANGED <<files, calls, filename, disk, min_size_mb>>
    /\ WorkflowUnchanged

\* choice 3: the two numbers are read, the listing is fetched, and
\* download_and_reduce_images starts: its filter and its selection
MainReduce(count, typed, listing) ==
    /\ ReadChoice("3")
    /\ IsNumber(count) /\ IsNumber(typed)
    /\ number_of_files' = ParseInt(count)
    /\ min_size_mb' = ParseInt(typed)
    /\ files' = listing
    /\ calls' = Append(calls, FetchedCall)
    /\ image_files' = FilterImages(listing, min_size_mb')
    /\ IF image_files' = <<>>
       THEN /\ out' = out \o <<Line("Menu", "", 0)>> \o FetchedOut(listing)
                          \o <<Line("NoImageFiles", "", 0)>>
            /\ selected_files' = <<>>
            /\ pc' = "done"
       ELSE /\ out' = out \o <<Line("Menu", "", 0)>> \o FetchedOut(listing)
            /\ selected_files' = SelectFiles(image_files', number_of_files')
            /\ pc' = AfterDownload(0, selected_files', <<>>)
    /\ idx' = 1
    /\ reduced_paths' = <<>>
    /\ total_bytes_saved' = 0
    /\ measured' = <<>>
    /\ UNCHANGED <<answer, duplicates_to_delete, total_bytes_savable, grouped, disk,
                   page_token, pages, filename>>

\* choice 4: the listing is fetched and find_duplicates starts: its grouping
MainDuplicates(listing) ==
    /\ ReadChoice("4")
    /\ files' = listing
    /\ calls' = Append(calls, FetchedCall)
    /\ grouped' = GroupFiles(listing, <<>>)
    /\ LET found == CollectDuplicates(grouped', <<<<>>, 0>>) IN
         /\ duplicates_to_delete' = found[1]
         /\ total_bytes_savable' = found[2]
         /\ IF found[1] = <<>>
            THEN /\ out' = out \o <<Line("Menu", "", 0)>> \o FetchedOut(listing)
                               \o <<Line("NoDuplicates", "", 0)>>
                 /\ pc' = "done"
            ELSE /\ out' = out \o <<Line("Menu", "", 0)>> \o FetchedOut(listing)
                               \o <<Line("FoundDuplicates", "", Len(found[1])),
                                    Line("EstimatedSpace", "", found[2])>>
                 /\ pc' = "dup_prompt"
    /\ idx' = 1
    /\ UNCHANGED <<number_of_files, min_size_mb, image_files, selected_files,
                   reduced_paths, total_bytes_saved, measured, answer, disk,
                   page_token, pages, filename>>

\* the listing request of a menu action raises (transport, auth): choices 1
\* and 4 have no handler and choices 2 and 3 catch ValueError only, so the
\* exception leaves main
MainFetchRaises(c, count, typed) ==
    /\ c \in {"1", "2", "3", "4"}
    /\ ReadChoice(c)
    /\ c = "2" => (IsNumber(typed) /\ files = <<>>)
    /\ c = "3" => (IsNumber(count) /\ IsNumber(typed))
    /\ number_of_files' = IF c = "3" THEN ParseInt(count) ELSE number_of_files
    /\ min_size_mb' = IF c = "3" THEN ParseInt(typed) ELSE min_size_mb
    /\ calls' = Append(calls, Call("list", "", FALSE, "None"))
    /\ out' = out \o <<Line("Menu", "", 0), Line("Scanning", "", 0)>>
    /\ pc' = "raised"
    /\ UNCHANGED <<files, filename, disk>>
    /\ WorkflowUnchanged

\* choice 5
MainExit ==
    /\ ReadChoice("5")
    /\ out' = out \o <<Line("Menu", "", 0), Line("Exiting", "", 0)>>
    /\ pc' = "exited"
    /\ UNCHANGED <<files, calls, filename, disk, number_of_files, min_size_mb>>
    /\ WorkflowUnchanged

\* anything else
MainInvalidChoice(c) ==
    /\ c \notin {"1", "2", "3", "4", "5"}
    /\ ReadChoice(c)
    /\ out' = out \o <<Line("Menu", "", 0), Line("InvalidChoice", "", 0)>>
    /\ pc' = "menu"
    /\ UNCHANGED <<files, calls, filename, disk, number_of_files, min_size_mb>>
    /\ WorkflowUnchanged

\* download_and_reduce_images or find_duplicates returns: the loop goes round
MainLoops ==
    /\ pc = "done"
    /\ rounds > 0
    /\ pc' = "menu"
    /\ UNCHANGED <<page_token, pages, filename, rounds, files, choice,
                   number_of_files, min_size_mb, image_files, selected_files, idx,
                   reduced_paths, total_bytes_saved, measured, answer,
                   duplicates_to_delete, total_bytes_savable, grouped, disk, calls, out>>

NextMain ==
    \/ \E listing \in MainListings : MainExportAll(listing)
    \/ \E typed \in NumberInputs, listing \in MainListings :
          MainExportLarge(typed, listing)
    \/ \E count \in NumberInputs, typed \in NumberInputs :
          MainReduceInvalid(count, typed)
    \/ \E count \in NumberInputs, typed \in NumberInputs, listing \in MainListings :
          MainReduce(count, typed, listing)
    \/ \E listing \in MainListings : MainDuplicates(listing)
    \/ \E c \in {"1", "2", "3", "4"}, count \in NumberInputs, typed \in NumberInputs :
          MainFetchRaises(c, count, typed)
    \/ MainExit
    \/ \E c \in {"", "6"} : MainInvalidChoice(c)
    \/ MainLoops
    \/ RequestFails
    \/ DownloadFails
    \/ ReduceFails
    \/ ReduceOk
    \/ \E typed \in AnswerInputs : Confirm(typed)
    \/ TrashFails
    \/ UploadFails
    \/ ReplaceOk
    \/ \E typed \in AnswerInputs : DupConfirm(typed)
    \/ DupTrashOk
    \/ DupTrashFails

SpecMain == InitMain /\ [][NextMain]_vars

----------------------------------------------------------------------------
(* Properties *)

\* the calls that change the remote state
IsMutation(c) == c.op \in {"trash", "create"}

\* the ids the trash calls were issued for, in the order they were issued
RECURSIVE TrashedIds(_)
TrashedIds(cs) ==
    IF cs = <<>> THEN <<>>
    ELSE IF Head(cs).op = "trash" THEN <<Head(cs).id>> \o TrashedIds(Tail(cs))
    ELSE TrashedIds(Tail(cs))

\* C1: in both workflows a trash or an upload is issued only after the operator
\* answered "y" at the confirmation prompt; once the reduce workflow has ended
\* on a declined prompt no trash and no upload was issued and every reduced
\* file of the plan list is still on disk.
C1_NoMutationWithoutConfirmation ==
    /\ (\E i \in 1..Len(calls) : IsMutation(calls[i])) => answer = <<"y">>
    /\ (pc = "done" /\ choice = "3" /\ reduced_paths # <<>> /\ answer # <<"y">>) =>
          /\ \A i \in 1..Len(calls) : ~IsMutation(calls[i])
          /\ \A i \in 1..Len(reduced_paths) :
                /\ reduced_paths[i][2] \in DOMAIN disk
                /\ disk[reduced_paths[i][2]].reduced

\* C1 witness: two files were reduced, the savings projected, the prompt declined
C1_Witness ==
    /\ pc = "done"
    /\ choice = "3"
    /\ Len(reduced_paths) = 2
    /\ answer = <<"n">>
    /\ \E i \in 1..Len(out) : out[i].kind = "AfterReplacement"
    /\ \A i \in 1..Len(calls) : ~IsMutation(calls[i])

\* plan i went through its full replace cycle: its trash and its upload succeeded
FullyReplaced(i) ==
    LET id == FileId(reduced_paths[i][1].path) IN
      /\ \E k \in 1..Len(calls) : calls[k] = Call("trash", id, TRUE, <<>>)
      /\ \E k \in 1..Len(calls) :
            calls[k].op = "create" /\ calls[k].id = id /\ calls[k].ok

RECURSIVE RealizedFrom(_)
\* the deltas measured for the plans from position i on that were fully replaced
RealizedFrom(i) ==
    IF i > Len(reduced_paths) THEN 0
    ELSE (IF FullyReplaced(i) THEN measured[i].before - measured[i].after ELSE 0)
         + RealizedFrom(i + 1)

\* C2: the final "Total space saved" figure of download_and_reduce_images is the
\* sum of before - after over the plans whose trash and upload both succeeded,
\* and so excludes every file that was not fully replaced (a failed trash, a
\* failed upload, a declined prompt).
C2_ReportedTotalIsRealized ==
    \A i \in 1..Len(out) :
        out[i].kind = "TotalSpaceSaved" => out[i].n = RealizedFrom(1)

\* C3: a plan whose trash succeeded and whose upload failed leaves an
\* InconsistentRemoteStateWarning line for that file in the output, which is not
\* the line an ordinary failure (a failed trash) of the same file prints.
C3_InconsistentStateIsFlagged ==
    \A k \in 1..Len(calls) :
        (calls[k].op = "create" /\ ~calls[k].ok) =>
            \E i \in 1..Len(out) :
                /\ out[i].kind = "InconsistentRemoteStateWarning"
                /\ out[i].name = calls[k].arg.name
                /\ \A f \in {files[j] : j \in 1..Len(files)} :
                      out[i] # ReplaceFailureLine(f)

\* the selected records whose download has been requested, in request order
RECURSIVE RequestedIds(_)
RequestedIds(cs) ==
    IF cs = <<>> THEN <<>>
    ELSE IF Head(cs).op = "get_media" THEN <<Head(cs).id>> \o RequestedIds(Tail(cs))
    ELSE RequestedIds(Tail(cs))

\* C4: no failure of one selected record aborts the download/reduce phase: the
\* workflow never leaves the loop by an exception, and once the phase is over
\* every selected record was attempted, in selection order.
C4_DownloadPhaseNeverAborts ==
    /\ pc # "raised"
    /\ (choice = "3" /\ pc \notin {"menu", "download"}) =>
          RequestedIds(calls) =
              [i \in 1..Len(selected_files) |-> FileId(selected_files[i].path)]

\* the remote ids of the plans, and of the duplicates marked for the trash
PlanIds == [i \in 1..Len(reduced_paths) |-> FileId(reduced_paths[i][1].path)]
DuplicateIds ==
    [i \in 1..Len(duplicates_to_delete) |-> FileId(duplicates_to_delete[i].path)]

IsImage(f) ==
    /\ Len(f.mimeType) >= 6
    /\ \A i \in 1..6 : f.mimeType[i] = <<"i", "m", "a", "g", "e", "/">>[i]
AboveThreshold(f) == f.size_bytes > min_size_mb * 1048576
OwnedByMe(f) == f.ownedByMe = "True"

\* the positions of the listing that satisfy all three predicates
EligiblePositions == {i \in 1..Len(files) :
                        IsImage(files[i]) /\ AboveThreshold(files[i]) /\ OwnedByMe(files[i])}

\* C6: the records eligible for reduction are exactly the records of the
\* listing with an image/ mime type, a size strictly above min_size_mb MiB and
\* ownedByMe true, and no call to Drive in the reduction workflow (download,
\* trash, upload) is ever issued for a record failing one of the three.
C6_EligibleExactlyTheThreePredicates ==
    (choice = "3") =>
        LET eligible == EligiblePositions
            ids == {FileId(files[i].path) : i \in eligible}
        IN /\ {image_files[j] : j \in 1..Len(image_files)} =
                 {files[i] : i \in eligible}
           /\ Len(image_files) = Cardinality(eligible)
           /\ \A k \in 1..Len(calls) : calls[k].id \in ids

\* C6 witness: of three records the first was eligible and replaced, the second
\* fails only the size test (its size equals the threshold) and the third only
\* the ownership test (no ownedByMe field); neither was ever touched
C6_Witness ==
    /\ choice = "3"
    /\ pc = "done"
    /\ Len(files) = 3
    /\ EligiblePositions = {1}
    /\ Len(reduced_paths) = 1
    /\ FullyReplaced(1)
    /\ IsImage(files[2]) /\ OwnedByMe(files[2])
    /\ files[2].size_bytes = min_size_mb * 1048576
    /\ IsImage(files[3]) /\ AboveThreshold(files[3])
    /\ files[3].ownedByMe = "None"

\* C7: for every integer the operator enters as the count (zero and negative
\* values included) the selected records are the first max_count entries of the
\* filtered listing, in listing order, all of them when fewer exist, and never
\* more than max_count of them (none for a count below one).
C7_SelectionIsFirstMaxCount ==
    (choice = "3" /\ image_files # <<>>) =>
        LET wanted == IF number_of_files > 0 THEN number_of_files ELSE 0 IN
          /\ Len(selected_files) <= wanted
          /\ selected_files =
                SubSeq(image_files, 1,
                       IF wanted < Len(image_files) THEN wanted ELSE Len(image_files))

\* the places <<bucket, position>> of the members of the buckets
MemberPlaces == {p \in (1..Len(grouped)) \X (1..MaxFiles) :
                    p[2] <= Len(grouped[p[1]].members)}
MemberAt(p) == grouped[p[1]].members[p[2]]

SameNameAndSize(f, g) == f.name = g.name /\ f.size_bytes = g.size_bytes

\* the listing records are in one bucket
Together(f, g) ==
    \E i \in 1..Len(grouped) :
        /\ \E j \in 1..Len(grouped[i].members) : grouped[i].members[j] = f
        /\ \E j \in 1..Len(grouped[i].members) : grouped[i].members[j] = g

\* C8: find_duplicates buckets the records by (name, size_bytes): the members
\* of a bucket share one name and one size, no two buckets have the same name
\* and size, every record of the listing is in exactly one bucket (so the
\* groups of two or more and the singletons hold each record once), every
\* record marked as a duplicate comes from a bucket of at least two, and two
\* records, in particular two of size 0, are bucketed together iff their names
\* and sizes are equal.
C8_GroupsPartitionTheListing ==
    (choice = "4") =>
        LET places == MemberPlaces IN
        /\ \A p \in places : SameNameAndSize(MemberAt(p), MemberAt(<<p[1], 1>>))
        /\ \A i, j \in 1..Len(grouped) :
              i # j => ~SameNameAndSize(MemberAt(<<i, 1>>), MemberAt(<<j, 1>>))
        /\ \A k \in 1..Len(files) :
              Cardinality({p \in places : MemberAt(p) = files[k]}) = 1
        /\ Cardinality(places) = Len(files)
        /\ \A d \in 1..Len(duplicates_to_delete) :
              \E i \in 1..Len(grouped) :
                  /\ Len(grouped[i].members) >= 2
                  /\ \E j \in 1..Len(grouped[i].members) :
                        grouped[i].members[j] = duplicates_to_delete[d]
        /\ \A k, l \in 1..Len(files) :
              Together(files[k], files[l]) <=> SameNameAndSize(files[k], files[l])

\* C8 witness: three records of size 0, two of them with one name: one group of
\* two, and the differently named record alone
C8_Witness ==
    /\ choice = "4"
    /\ Len(files) = 3
    /\ \A k \in 1..3 : files[k].size_bytes = 0
    /\ files[1].name = files[3].name
    /\ files[2].name # files[1].name
    /\ Len(grouped) = 2
    /\ grouped[1].members = <<files[1], files[3]>>
    /\ grouped[2].members = <<files[2]>>
    /\ duplicates_to_delete = <<files[3]>>

\* record k of the listing is the first-listed one with its name and size
FirstListed(k) == \A j \in 1..(k - 1) : ~SameNameAndSize(files[j], files[k])

\* the records of seq with the name and size of f, in the order of seq
WithKeyOf(seq, f) == LET Same(g) == SameNameAndSize(g, f) IN SelectSeq(seq, Same)

\* the number of trash calls issued for the remote id
TrashCalls(id) ==
    Cardinality({c \in 1..Len(calls) : calls[c].op = "trash" /\ calls[c].id = id})

\* C9: the redundant candidates of a group are its members but the first-listed
\* one, in listing order; no trash call is ever issued for the first-listed
\* record of a (name, size_bytes) key, and once find_duplicates has run with
\* confirmation exactly one was issued for every other record.
C9_KeeperIsNeverTrashed ==
    (choice = "4") =>
        /\ \A k \in 1..Len(files) :
              FirstListed(k) =>
                  /\ WithKeyOf(duplicates_to_delete, files[k]) =
                        Tail(WithKeyOf(files, files[k]))
                  /\ TrashCalls(FileId(files[k].path)) = 0
        /\ (pc = "done" /\ answer = <<"y">>) =>
              \A k \in 1..Len(files) :
                  ~FirstListed(k) => TrashCalls(FileId(files[k].path)) = 1

\* C9 witness: three records with one name and size, confirmation given: the
\* second and the third were sent to the trash in that order, the first never
C9_Witness ==
    /\ choice = "4"
    /\ pc = "done"
    /\ answer = <<"y">>
    /\ Len(files) = 3
    /\ duplicates_to_delete = <<files[2], files[3]>>
    /\ TrashedIds(calls) = <<FileId(files[2].path), FileId(files[3].path)>>

RECURSIVE SizeOfLaterCopies(_)
\* the sizes of the records from position k on that are not first-listed
SizeOfLaterCopies(k) ==
    IF k > Len(files) THEN 0
    ELSE (IF FirstListed(k) THEN 0 ELSE files[k].size_bytes)
         + SizeOfLaterCopies(k + 1)

\* C10: the estimated reclaimable space find_duplicates computes and prints is
\* the sum of size_bytes over the redundant candidates of all groups: the
\* first-listed record of each key and the records without a copy add nothing.
C10_ReclaimableIsSumOfRedundant ==
    (choice = "4") =>
        /\ total_bytes_savable = SizeOfLaterCopies(1)
        /\ \A i \in 1..Len(out) :
              out[i].kind = "EstimatedSpace" => out[i].n = SizeOfLaterCopies(1)

\* C10 witness: [a.jpg, a.jpg, b.jpg] of one non-zero size: one group of two,
\* one redundant candidate (the second a.jpg), and its size as the estimate
C10_Witness ==
    /\ choice = "4"
    /\ Len(files) = 3
    /\ files[1].name = "a.jpg" /\ files[2].name = "a.jpg" /\ files[3].name = "b.jpg"
    /\ \A k \in 1..3 : files[k].size_bytes = MiB
    /\ duplicates_to_delete = <<files[2]>>
    /\ total_bytes_savable = MiB
    /\ \E i \in 1..Len(out) : out[i] = Line("EstimatedSpace", "", MiB)

\* C14: in the replacement phase an upload is issued only right after the trash
\* of that same original has succeeded; after a failed trash no upload is ever
\* issued for that file, so its remote state is untouched; the only mutations
\* issued are the soft-delete update (trashed = true) and the upload, never a
\* hard delete.
C14_TrashThenUpload ==
    LET uploaded == {calls[j].id : j \in {n \in 1..Len(calls) : calls[n].op = "create"}}
    IN \A k \in 1..Len(calls) :
          /\ calls[k].op \in {"get_media", "download", "trash", "create"}
          /\ calls[k].op = "create" =>
                /\ k > 1
                /\ calls[k - 1] = Call("trash", calls[k].id, TRUE, <<>>)
          /\ (calls[k].op = "trash" /\ ~calls[k].ok) => calls[k].id \notin uploaded

\* C14 witness: the trash of the first plan failed and nothing was uploaded for
\* it; the second plan was trashed and then uploaded
C14_Witness ==
    /\ choice = "3"
    /\ pc = "done"
    /\ Len(reduced_paths) = 2
    /\ \E k \in 1..Len(calls) : calls[k] = Call("trash", PlanIds[1], FALSE, <<>>)
    /\ \A k \in 1..Len(calls) : ~(calls[k].op = "create" /\ calls[k].id = PlanIds[1])
    /\ FullyReplaced(2)

\* C15: in both workflows a trash call is only ever issued for a record of the
\* listing whose ownedByMe flag is true: never for one with the flag false or
\* absent.
C15_OnlyOwnedRecordsAreTrashed ==
    \A k \in 1..Len(calls) :
        calls[k].op = "trash" =>
            \A i \in 1..Len(files) :
                FileId(files[i].path) = calls[k].id => files[i].ownedByMe = "True"

RECURSIVE MeasuredSum(_)
\* the sum of before - after over the measurements from position i on
MeasuredSum(i) ==
    IF i > Len(measured) THEN 0
    ELSE (measured[i].before - measured[i].after) + MeasuredSum(i + 1)

\* the download of the record succeeded, and the reducer returned its sizes
DownloadSucceeded(id) ==
    \E k \in 1..Len(calls) : calls[k] = Call("download", id, TRUE, <<>>)
ReductionSucceeded(id) == \E i \in 1..Len(measured) : measured[i].id = id

\* C16: the plan list holds exactly the selected records handled so far whose
\* download and reduction both succeeded, once each and in selection order; the
\* projected total is the sum of before - after over exactly those records, a
\* negative difference included; and no trash or upload is ever issued for a
\* record whose download or reduction failed.
C16_PlansAreTheReducedRecords ==
    (choice = "3") =>
        LET ids == PlanIds
            sel == [j \in 1..Len(selected_files) |-> FileId(selected_files[j].path)]
            pos == [i \in 1..Len(ids) |->
                       IF \E j \in 1..Len(sel) : sel[j] = ids[i]
                       THEN CHOOSE j \in 1..Len(sel) : sel[j] = ids[i]
                       ELSE 0]
            downloaded == {calls[k].id : k \in {n \in 1..Len(calls) :
                               calls[n].op = "download" /\ calls[n].ok}}
            reduced == {measured[i].id : i \in 1..Len(measured)}
            total == MeasuredSum(1)
        IN /\ \A i \in 1..Len(ids) :
                 /\ pos[i] > 0
                 /\ reduced_paths[i][1] = selected_files[pos[i]]
                 /\ i > 1 => pos[i - 1] < pos[i]
           /\ \A j \in 1..Len(sel) :
                 (\E i \in 1..Len(ids) : ids[i] = sel[j]) <=>
                     (sel[j] \in downloaded /\ sel[j] \in reduced)
           /\ Len(measured) = Len(ids)
           /\ total_bytes_saved = total
           /\ \A i \in 1..Len(out) :
                 out[i].kind = "AfterReplacement" => out[i].n = total
           /\ \A k \in 1..Len(calls) :
                 IsMutation(calls[k]) =>
                     (calls[k].id \in downloaded /\ calls[k].id \in reduced)

\* C16 witness: of three selected records the first failed to download and the
\* second to decode; the third grew when reduced, so the projected total is
\* negative, and it alone was planned and replaced
C16_Witness ==
    /\ choice = "3"
    /\ pc = "done"
    /\ Len(selected_files) = 3
    /\ ~DownloadSucceeded(FileId(selected_files[1].path))
    /\ DownloadSucceeded(FileId(selected_files[2].path))
    /\ ~ReductionSucceeded(FileId(selected_files[2].path))
    /\ Len(reduced_paths) = 1
    /\ reduced_paths[1][1] = selected_files[3]
    /\ total_bytes_saved < 0
    /\ FullyReplaced(1)

\* C17: the file uploaded for a plan is the reduced version of the content
\* downloaded for that same record, and the saving attributed to the plan was
\* measured on that content, also when two selected records with different
\* remote ids share one name.
C17_UploadIsOwnReducedContent ==
    /\ \A k \in 1..Len(calls) :
          calls[k].op = "create" =>
              /\ calls[k].arg.media.reduced
              /\ calls[k].arg.media.of = calls[k].id
    /\ \A i \in 1..Len(measured) :
          \E j \in 1..Len(selected_files) :
              /\ FileId(selected_files[j].path) = measured[i].id
              /\ measured[i].before = selected_files[j].size_bytes

\* dict.get(key) of a response or an entry, None when the key is absent
TokenOf(response) ==
    IF "nextPageToken" \in DOMAIN response THEN response.nextPageToken ELSE "None"
EntriesOf(response) ==
    IF "files" \in DOMAIN response THEN response.files ELSE <<>>

RECURSIVE Delivered(_)
\* the entries of the responses received so far, in page order
Delivered(n) == IF n = 0 THEN <<>> ELSE Delivered(n - 1) \o EntriesOf(pages[n])

\* C11: fetch_files returns one record per entry the listing delivered, in
\* listing order, and each record exposes the entry's remote identifier under
\* the field "id", together with its "name" and "mimeType".
C11_RecordsExposeIdNameMime ==
    pc = "fetched" =>
        LET entries == Delivered(Len(pages)) IN
          /\ Len(files) = Len(entries)
          /\ \A i \in 1..Len(files) :
                /\ {"id", "name", "mimeType"} \subseteq DOMAIN files[i]
                /\ files[i]["id"] = entries[i].id
                /\ files[i]["name"] = entries[i].name
                /\ files[i]["mimeType"] = entries[i].mimeType

HasNext(response) == TokenOf(response) \notin {"None", ""}

\* the requests fetch_files has issued follow the chain of page tokens, and
\* the records are the entries of the pages received, in page order
C18_Chain ==
    /\ \A k \in 1..Len(calls) : calls[k].op = "list"
    /\ Len(calls) = Len(pages) + (IF pc = "raised" THEN 1 ELSE 0)
    /\ \A k \in 1..Len(calls) :
          /\ calls[k].ok <=> k <= Len(pages)
          /\ calls[k].arg = IF k = 1 THEN "None" ELSE TokenOf(pages[k - 1])
    /\ \A k \in 1..(Len(pages) - 1) : HasNext(pages[k])
    /\ (pc = "fetched") <=> (pages # <<>> /\ ~HasNext(pages[Len(pages)]))
    /\ LET entries == Delivered(Len(pages)) IN
         /\ Len(files) = Len(entries)
         /\ \A i \in 1..Len(files) :
               /\ FileId(files[i].path) = entries[i].id
               /\ files[i].name = entries[i].name
               /\ files[i].size_bytes =
                     (IF "size" \in DOMAIN entries[i] THEN 2048 ELSE 0)

\* C18: the first request carries no page token, each later request carries
\* the token the previous response returned, each page is requested once, the
\* loop ends exactly when a response has no token or an empty one, the result
\* is the concatenation of the pages' entries in page order with an absent
\* size ingested as 0, and the call ends once Drive returns a page without a
\* next token.
C18_TokenChainAndTermination ==
    /\ []C18_Chain
    /\ <>(pc \in {"fetched", "raised"})

\* C18 witness: three pages were walked with two different tokens, the
\* second page held an entry without a size, the last response had no
\* nextPageToken key
C18_Witness ==
    /\ pc = "fetched"
    /\ Len(pages) = MaxPages
    /\ TokenOf(pages[1]) = "t1"
    /\ TokenOf(pages[2]) = "t2"
    /\ "nextPageToken" \notin DOMAIN pages[3]
    /\ Len(EntriesOf(pages[1])) = 2
    /\ \E i \in 1..Len(EntriesOf(pages[2])) : "size" \notin DOMAIN EntriesOf(pages[2])[i]
    /\ Len(files) >= 3
    /\ \E i \in 1..Len(files) : files[i].size_bytes = 0

\* C13: export_to_json_file called with no records writes no file (the target
\* does not exist afterwards if it did not exist before) and reports "No data
\* to export"; called with records it writes a file whose decoded content
\* equals its input.
C13_ExportWritesItsInputOrNothing ==
    [][(pc = "export" /\ pc' = "exported") =>
          LET target == JoinPath(OUTPUT_DIR, filename) IN
            IF files = <<>>
            THEN /\ target \notin DOMAIN disk => target \notin DOMAIN disk'
                 /\ disk' = disk
                 /\ out' = Append(out, Line("NoDataToExport", "", 0))
            ELSE /\ target \in DOMAIN disk'
                 /\ JsonLoad(disk'[target].json) = files
                 /\ \A i \in 1..Len(out') : out'[i].kind # "NoDataToExport"]_vars

\* C13 witness: the export of no records has returned; its target does not
\* exist, the earlier export of another name is still there, and the one line
\* printed is "No data to export"
C13_Witness ==
    /\ pc = "exported"
    /\ files = <<>>
    /\ filename = "media_files_above_1MB.json"
    /\ DOMAIN disk = {JoinPath(OUTPUT_DIR, "all_media_files.json")}
    /\ out = <<Line("NoDataToExport", "", 0)>>

\* C12: a listing or auth error raised while a menu action fetches the listing
\* aborts only that action: the process is not ended by it, it is back in the
\* menu loop and can accept the next choice.
C12_ListingErrorReturnsToMenu ==
    (calls # <<>> /\ calls[Len(calls)] = Call("list", "", FALSE, "None")) =>
        pc = "menu"

====
